---------------------------- MODULE Spec2Model ----------------------------
(***************************************************************************)
(* A model of the batch scheduler of src/batch_controller_aliyun.py:       *)
(* the shard planning of get_tasks (by index and by file size), the        *)
(* per-rank progress files and save_progress, the resume filter,           *)
(* run_blender_remesh, the fixed pool of main and the dynamic queue of     *)
(* process_tasks_dynamic; and of the catalog load with its directory scan  *)
(* in src/batch_controller.py.                                             *)
(*                                                                         *)
(* A job is identified by its 1-based place in the catalog file            *)
(* (relative_file_list.txt); input_path and output_path are functions of   *)
(* it (lines 217-220), so one identifier stands for both.                  *)
(***************************************************************************)
EXTENDS Integers, Sequences, FiniteSets, TLC

(***************************************************************************)
(* Bounds of the model.                                                    *)
(***************************************************************************)
\* catalog sizes 0..MaxCat and world sizes 1..MaxWorldPlan of ShardSpec
MaxCat == 6
MaxWorldPlan == 4

\* the run machine (Spec): catalog size, WORLD_SIZE, execution units
\* (MAX_PROCESSES is 8 in the source), largest --max, largest retry count
NJobs == 3
MaxWorld == 2
NumUnits == 2
MaxLimit == 1
MaxCount == 3

\* size-balanced planning (LptSpec, RaceSpec): catalog sizes 0..MaxBalCat,
\* file sizes 0..MaxSize, world sizes 1..MaxWorldBal
MaxBalCat == 3
MaxSize == 2
MaxWorldBal == 3

\* the catalog load of batch_controller.py (ScanSpec): factory directories,
\* sample names, lines of a cache file found at the start, calls of get_tasks
MaxFactories == 2
MaxSamples == 1
MaxCacheLen == 2
MaxLoads == 2

\* Bounds of the completion ledger: its writers and the jobs they complete.
MaxLedgerRanks == 2
MaxLedgerJobs == 2
\* sampled estimation: catalogs of m * sample_size + e paths
MaxSampleMult == 2
MaxSampleOver == 2
\* values of --sample-sizes: 0..MaxDepth
MaxDepth == 2

\* line 28
MAX_RETRIES == 3

\* line 235: `args` is a local of main (line 608), so 'args' in globals() is
\* false and sample_size is always the default
sample_size == 400

VARIABLES
    catalog,      \* relative_paths of get_tasks: the catalog, a sequence of job ids
    world_size,   \* WORLD_SIZE
    rank,         \* RANK of the process of the run machine
    cache_exists, \* CACHE_FILE (relative_file_list.txt) exists
    raised,       \* history: the exceptions that have ended a run of main
    saving,       \* SaveSpec: a call of save_progress in progress
    prior,        \* SaveSpec, history: the record persisted before that call
    tree,         \* ScanSpec: BASE_DIR: relative path -> "none", "file", "dir"
    cache_file,   \* ScanSpec: CACHE_FILE of batch_controller.py
    relative_paths, \* ScanSpec: what the last get_tasks loaded
    scans,        \* ScanSpec, history: directory scans so far
    cache_writes, \* ScanSpec, history: writes of the cache file so far
    cold_paths,   \* ScanSpec, history: what the scan found
    loads,        \* ScanSpec: calls of get_tasks so far
    ledger,       \* LedgerSpec: job -> the lines of the shared ledger holding it
    flusher,      \* LedgerSpec: rank -> its ledger writer
    rank_files,   \* CrossSpec: rank -> the progress files of that rank
    node_shard,   \* ShardSpec: what each rank's get_tasks computed as its slice
    file_size,    \* job -> os.path.getsize of its input file (0: OSError)
    size_cache,   \* file_size_cache.json: job -> cached size (Absent: no entry)
    planner,      \* rank -> its get_tasks(balance_by_size=True) in progress
    fexists,      \* the rank's completed/failed files exist
    cfile,        \* completed_tasks_rank<r>.json: the set of jobs listed
    ffile,        \* failed_tasks_rank<r>.json: job -> retry count (0: no entry)
    cvalid,       \* the completed file holds a whole JSON document
    fvalid,       \* the failed file holds a whole JSON document
    outExists,    \* jobs whose output_path exists
    pc,           \* main process: "idle", "pool", "dyn", "join", "done"
    kind,         \* "none", "resume", "noresume", "retry"
    dynamic,      \* args.dynamic
    limit,        \* args.max (0: not given)
    tasks,        \* the list handed to the pool / put on task_queue
    nxt,          \* how many of tasks have been taken by a unit
    upc,          \* unit -> "idle", "got", "run", "saved", "exit"
    ujob,         \* unit -> the job it holds (0: none)
    uc,           \* unit -> completed_tasks as loaded by run_blender_remesh
    uf,           \* unit -> failed_tasks as loaded by run_blender_remesh
    dcompleted,   \* process_tasks_dynamic's local `completed`
    active,       \* active_count._value
    interrupted,  \* a KeyboardInterrupt reached the main process in this run
    startC,       \* history: cfile when the units of this run started
    startP,       \* history: the completed record loaded when main started
    startF,       \* history: ffile when the units of this run started
    exit0,        \* history: jobs whose worker exited 0 in this run
    exitN,        \* history: jobs whose worker exited non-zero in this run
    invoked,      \* history: jobs whose worker was started in this run
    runs,         \* history: job -> calls of run_blender_remesh in this run
    flightAtInt,  \* history: jobs in flight when the interrupt arrived
    pendAtInt     \* history: tasks not yet started when the interrupt arrived

balVars == <<file_size, size_cache, planner>>
planVars == <<catalog, world_size, node_shard, balVars>>
saveVars == <<saving, prior>>
scanVars == <<tree, cache_file, relative_paths, scans, cache_writes, cold_paths,
              loads>>
ledgerVars == <<ledger, flusher>>
envVars == <<rank, cache_exists, raised, saveVars, scanVars, ledgerVars, rank_files>>
fileVars == <<fexists, cfile, ffile, cvalid, fvalid>>
runVars == <<pc, kind, dynamic, limit, tasks, nxt>>
unitVars == <<upc, ujob, uc, uf>>
dynVars == <<dcompleted, active>>
histVars ==
    <<startC, startF, startP, exit0, exitN, invoked, runs, flightAtInt, pendAtInt>>
vars == <<planVars, envVars, fileVars, outExists, runVars, unitVars, dynVars,
          interrupted, histVars>>

(***************************************************************************)
(* Helpers.                                                                *)
(***************************************************************************)
Min(a, b) == IF a <= b THEN a ELSE b

Range(s) == {s[i] : i \in DOMAIN s}

Max(a, b) == IF a >= b THEN a ELSE b

\* an end of a Python slice: a negative end counts from len, and both ends
\* are clamped to 0..len
SliceEnd(i, len) == IF i < 0 THEN Max(i + len, 0) ELSE Min(i, len)

\* Python's s[a:b]
Slice(s, a, b) ==
    LET lo == SliceEnd(a, Len(s))
        hi == SliceEnd(b, Len(s))
    IN  IF lo >= hi THEN << >> ELSE [i \in 1..(hi - lo) |-> s[lo + i]]

\* Python's a // b for b # 0: the quotient rounded down
FloorDiv(a, b) == IF b > 0 THEN a \div b ELSE (0 - a) \div (0 - b)

\* the catalog file of n jobs, in file order
CatalogOf(n) == [i \in 1..n |-> i]

(***************************************************************************)
(* get_tasks, lines 338-343: standard index-based partitioning.            *)
(***************************************************************************)
\* variant of line 340 that rounds down
chunk_size_floor(n, w) == n \div w

\* line 340 (ZeroDivisionError when w = 0)
chunk_size(n, w) == FloorDiv(n + w - 1, w)

\* variant of line 341 that starts one entry late
start_late(n, w, r) == r * chunk_size(n, w) + 1

\* line 341
start(n, w, r) == r * chunk_size(n, w)

\* line 342
end(n, w, r) == Min((r + 1) * chunk_size(n, w), n)

\* all_paths[start:end] for rank r
ChunkShard(cat, w, r) == Slice(cat, start(Len(cat), w, r), end(Len(cat), w, r))

(***************************************************************************)
(* The progress files (lines 52-89, 147-155) and the catalog of the run    *)
(* machine.                                                                *)
(***************************************************************************)
Jobs == 1..NJobs

Units == 1..NumUnits

\* failed_tasks = {}
NoFailed == [j \in Jobs |-> 0]

\* the rank's slice in the run machine (balance_by_size is off)
Shard == ChunkShard(catalog, world_size, rank)

ShardSet == Range(Shard)

\* lines 63-77: a file that does not exist, or that json.load cannot
\* decode, loads as empty
LoadedCompleted == IF fexists /\ cvalid THEN cfile ELSE {}

LoadedFailed == IF fexists /\ fvalid THEN ffile ELSE NoFailed

\* save_progress, lines 147-155, run to its end
save_progress(completed_tasks, failed_tasks) ==
    /\ fexists' = TRUE
    /\ cfile' = completed_tasks
    /\ cvalid' = TRUE
    /\ ffile' = failed_tasks
    /\ fvalid' = TRUE

\* detect_completed_tasks, lines 91-145: every catalog entry whose rel_path
\* is a file under the output directory
DetectCompleted == {j \in Range(catalog) : j \in outExists}

\* load_progress(auto_detect=True), lines 79-89
AutoCompleted ==
    IF LoadedCompleted = {} /\ DetectCompleted # {}
    THEN DetectCompleted
    ELSE LoadedCompleted

\* variant of line 374 with > for >=
MaxRetriesExceeded_off_by_one(n) == n > MAX_RETRIES

\* lines 373-376: the retry ceiling of the resume filter
MaxRetriesExceeded(n) == n >= MAX_RETRIES

\* lines 358-379: the loop over all_tasks; i is the loop's position
RECURSIVE ResumeFilter(_, _, _, _, _)
ResumeFilter(all_tasks, i, completed_tasks, failed_tasks, pending_tasks) ==
    IF i > Len(all_tasks)
    THEN [completed |-> completed_tasks, pending |-> pending_tasks]
    ELSE LET j == all_tasks[i] IN
         IF j \in completed_tasks
         THEN ResumeFilter(all_tasks, i + 1, completed_tasks, failed_tasks,
                           pending_tasks)
         ELSE IF j \in outExists
         THEN ResumeFilter(all_tasks, i + 1, completed_tasks \cup {j},
                           failed_tasks, pending_tasks)
         ELSE IF failed_tasks[j] > 0 /\ MaxRetriesExceeded(failed_tasks[j])
         THEN ResumeFilter(all_tasks, i + 1, completed_tasks, failed_tasks,
                           pending_tasks)
         ELSE ResumeFilter(all_tasks, i + 1, completed_tasks, failed_tasks,
                           Append(pending_tasks, j))

\* lines 391-393: `if limit: tasks = tasks[:limit]`
ApplyLimit(ts, lim) == IF lim # 0 THEN Slice(ts, 0, lim) ELSE ts

\* lines 672-676: one task per key of the failed file (in the model: by job id)
RECURSIVE FailedTasks(_, _)
FailedTasks(f, j) ==
    IF j > NJobs THEN << >>
    ELSE IF f[j] > 0 THEN <<j>> \o FailedTasks(f, j + 1)
    ELSE FailedTasks(f, j + 1)

(***************************************************************************)
(* The state between runs, and the start of a run's units.                 *)
(***************************************************************************)
IdleRun ==
    /\ pc' = "idle"
    /\ kind' = "none"
    /\ dynamic' = FALSE
    /\ limit' = 0
    /\ tasks' = << >>
    /\ nxt' = 0
    /\ upc' = [u \in Units |-> "idle"]
    /\ ujob' = [u \in Units |-> 0]
    /\ uc' = [u \in Units |-> {}]
    /\ uf' = [u \in Units |-> NoFailed]
    /\ dcompleted' = {}
    /\ active' = 0
    /\ interrupted' = FALSE
    /\ startC' = {}
    /\ startP' = {}
    /\ startF' = NoFailed
    /\ exit0' = {}
    /\ exitN' = {}
    /\ invoked' = {}
    /\ runs' = [j \in Jobs |-> 0]
    /\ flightAtInt' = {}
    /\ pendAtInt' = {}

\* main, lines 681-709: no tasks: exit(0); else the pool or the dynamic queue
Launch(k, dyn, lim, ts, c, f) ==
    IF ts = << >>
    THEN IdleRun
    ELSE /\ pc' = IF dyn THEN "dyn" ELSE "pool"
         /\ kind' = k
         /\ dynamic' = dyn
         /\ limit' = lim
         /\ tasks' = ts
         /\ nxt' = 0
         /\ upc' = [u \in Units |-> "idle"]
         /\ ujob' = [u \in Units |-> 0]
         /\ uc' = [u \in Units |-> {}]
         /\ uf' = [u \in Units |-> NoFailed]
         /\ dcompleted' = {}
         /\ active' = 0
         /\ interrupted' = FALSE
         /\ startC' = c
         /\ startP' = LoadedCompleted
         /\ startF' = f
         /\ exit0' = {}
         /\ exitN' = {}
         /\ invoked' = {}
         /\ runs' = [j \in Jobs |-> 0]
         /\ flightAtInt' = {}
         /\ pendAtInt' = {}

\* get_tasks(resume=True), lines 352-384, 391-396, then main
StartResume(dyn, lim) ==
    /\ pc = "idle"
    /\ cache_exists
    /\ world_size # 0
    /\ LET r == ResumeFilter(Shard, 1, AutoCompleted, LoadedFailed, << >>)
       IN  /\ save_progress(r.completed, LoadedFailed)
           /\ Launch("resume", dyn, lim, ApplyLimit(r.pending, lim),
                     r.completed, LoadedFailed)
    /\ UNCHANGED <<planVars, envVars, outExists>>

\* get_tasks(resume=False) without the reset of line 388
StartNoResume_keep(dyn, lim) ==
    /\ pc = "idle"
    /\ cache_exists
    /\ world_size # 0
    /\ UNCHANGED fileVars
    /\ Launch("noresume", dyn, lim, ApplyLimit(Shard, lim), {}, NoFailed)
    /\ UNCHANGED <<planVars, envVars, outExists>>

\* get_tasks(resume=False), lines 385-396, then main
StartNoResume(dyn, lim) ==
    /\ pc = "idle"
    /\ cache_exists
    /\ world_size # 0
    /\ save_progress({}, NoFailed)
    /\ Launch("noresume", dyn, lim, ApplyLimit(Shard, lim), {}, NoFailed)
    /\ UNCHANGED <<planVars, envVars, outExists>>

\* main with --retry-failed, lines 654-676: exits when there is no failed
\* file or it is empty; json.load (line 662) is not guarded, so a failed
\* file that does not decode ends main with JSONDecodeError
StartRetry(dyn) ==
    /\ pc = "idle"
    /\ fexists
    /\ IF fvalid
       THEN /\ \E j \in Jobs : ffile[j] > 0
            /\ Launch("retry", dyn, 0, FailedTasks(ffile, 1), cfile, ffile)
            /\ raised' = raised
       ELSE /\ raised' = raised \cup {"JSONDecodeError"}
            /\ UNCHANGED <<runVars, unitVars, dynVars, interrupted, histVars>>
    /\ UNCHANGED <<planVars, rank, cache_exists, saveVars, scanVars,
                   ledgerVars, rank_files, fileVars,
                   outExists>>

\* get_tasks raises before it selects a job: line 208 when CACHE_FILE does
\* not exist, line 340 when WORLD_SIZE is 0
GetTasksRaises ==
    /\ pc = "idle"
    /\ ~cache_exists \/ world_size = 0
    /\ raised' = raised \cup {IF ~cache_exists THEN "RuntimeError"
                               ELSE "ZeroDivisionError"}
    /\ UNCHANGED <<planVars, rank, cache_exists, saveVars, scanVars,
                   ledgerVars, rank_files, fileVars,
                   outExists, runVars, unitVars, dynVars, interrupted, histVars>>

(***************************************************************************)
(* run_blender_remesh, lines 398-462, in one execution unit.               *)
(***************************************************************************)
\* line 417: load_progress()
LoadInto(u, j) ==
    /\ ujob' = [ujob EXCEPT ![u] = j]
    /\ uc' = [uc EXCEPT ![u] = LoadedCompleted]
    /\ uf' = [uf EXCEPT ![u] = LoadedFailed]
    /\ upc' = [upc EXCEPT ![u] = "run"]
    /\ invoked' = invoked \cup {j}
    /\ runs' = [runs EXCEPT ![j] = @ + 1]

\* the unit is done with run_blender_remesh
Release(u) ==
    IF dynamic
    THEN /\ upc' = [upc EXCEPT ![u] = "saved"]
         /\ ujob' = ujob
         /\ uc' = [uc EXCEPT ![u] = {}]
         /\ uf' = [uf EXCEPT ![u] = NoFailed]
    ELSE /\ upc' = [upc EXCEPT ![u] = "idle"]
         /\ ujob' = [ujob EXCEPT ![u] = 0]
         /\ uc' = [uc EXCEPT ![u] = {}]
         /\ uf' = [uf EXCEPT ![u] = NoFailed]

\* lines 427-433: what a zero exit status does to the loaded record
CompletedAfterSuccess(c, j) == c \cup {j}

FailedAfterSuccess(f, j) == [f EXCEPT ![j] = 0]

\* a failure record that starts again at 1 on every failure
FailedAfterFailure_reset(f, j) == [f EXCEPT ![j] = 1]

\* lines 453-457: what a non-zero exit status does to the loaded record
FailedAfterFailure(f, j) == [f EXCEPT ![j] = f[j] + 1]

\* fixed pool, lines 696-709: a pool process takes the next task
PoolStart(u) ==
    /\ pc = "pool"
    /\ upc[u] = "idle"
    /\ nxt < Len(tasks)
    /\ nxt' = nxt + 1
    /\ LoadInto(u, tasks[nxt + 1])
    /\ UNCHANGED <<planVars, envVars, fileVars, outExists, pc, kind, dynamic,
                   limit, tasks, dynVars, interrupted, startC, startF, startP, exit0,
                   exitN, flightAtInt, pendAtInt>>

\* lines 420-433, 460: the worker exits 0 (its output file exists)
JobSuccess(u) ==
    /\ upc[u] = "run"
    /\ save_progress(CompletedAfterSuccess(uc[u], ujob[u]),
                     FailedAfterSuccess(uf[u], ujob[u]))
    /\ outExists' = outExists \cup {ujob[u]}
    /\ exit0' = exit0 \cup {ujob[u]}
    /\ Release(u)
    /\ UNCHANGED <<planVars, envVars, runVars, dynVars, interrupted, startC,
                   startF, startP, exitN, invoked, runs, flightAtInt, pendAtInt>>

\* lines 435-460: the worker exits non-zero (counts are capped at MaxCount)
JobFailure(u) ==
    /\ upc[u] = "run"
    /\ uf[u][ujob[u]] < MaxCount
    /\ save_progress(uc[u], FailedAfterFailure(uf[u], ujob[u]))
    /\ exitN' = exitN \cup {ujob[u]}
    /\ Release(u)
    /\ UNCHANGED <<planVars, envVars, outExists, runVars, dynVars, interrupted,
                   startC, startF, startP, exit0, invoked, runs, flightAtInt,
                   pendAtInt>>

(***************************************************************************)
(* process_tasks_dynamic, lines 465-578: the worker threads.               *)
(***************************************************************************)
\* variant of line 511 that reads the head of the queue and leaves it there
DynGet_peek(u) ==
    /\ pc \in {"dyn", "join"}
    /\ upc[u] = "idle"
    /\ IF nxt < Len(tasks)
       THEN /\ nxt' = nxt
            /\ ujob' = [ujob EXCEPT ![u] = tasks[nxt + 1]]
            /\ upc' = [upc EXCEPT ![u] = "got"]
       ELSE /\ nxt' = nxt
            /\ ujob' = ujob
            /\ upc' = [upc EXCEPT ![u] = "exit"]
    /\ UNCHANGED <<planVars, envVars, fileVars, outExists, pc, kind, dynamic,
                   limit, tasks, uc, uf, dynVars, interrupted, histVars>>

\* line 511: task_queue.get(block=False); lines 545-547: queue.Empty ends
\* the thread
DynGet(u) ==
    /\ pc \in {"dyn", "join"}
    /\ upc[u] = "idle"
    /\ IF nxt < Len(tasks)
       THEN /\ nxt' = nxt + 1
            /\ ujob' = [ujob EXCEPT ![u] = tasks[nxt + 1]]
            /\ upc' = [upc EXCEPT ![u] = "got"]
       ELSE /\ nxt' = nxt
            /\ ujob' = ujob
            /\ upc' = [upc EXCEPT ![u] = "exit"]
    /\ UNCHANGED <<planVars, envVars, fileVars, outExists, pc, kind, dynamic,
                   limit, tasks, uc, uf, dynVars, interrupted, histVars>>

\* line 512: active_count.release(); line 520 up to the worker's start
DynStart(u) ==
    /\ pc \in {"dyn", "join"}
    /\ upc[u] = "got"
    /\ active' = active + 1
    /\ LoadInto(u, ujob[u])
    /\ UNCHANGED <<planVars, envVars, fileVars, outExists, runVars, dcompleted,
                   interrupted, startC, startF, startP, exit0, exitN, flightAtInt,
                   pendAtInt>>

\* a thread that ends its job without line 543, active_count.acquire()
DynFinish_hold(u) ==
    /\ upc[u] = "saved"
    /\ dcompleted' = dcompleted \cup {ujob[u]}
    /\ active' = active
    /\ upc' = [upc EXCEPT ![u] = "idle"]
    /\ ujob' = [ujob EXCEPT ![u] = 0]
    /\ UNCHANGED <<planVars, envVars, fileVars, outExists, runVars, uc, uf,
                   interrupted, histVars>>

\* lines 529-543: run_blender_remesh returned without raising (it catches
\* the worker's failure itself), so success is True
DynFinish(u) ==
    /\ upc[u] = "saved"
    /\ dcompleted' = dcompleted \cup {ujob[u]}
    /\ active' = active - 1
    /\ upc' = [upc EXCEPT ![u] = "idle"]
    /\ ujob' = [ujob EXCEPT ![u] = 0]
    /\ UNCHANGED <<planVars, envVars, fileVars, outExists, runVars, uc, uf,
                   interrupted, histVars>>

(***************************************************************************)
(* The main thread of process_tasks_dynamic and main's pool.               *)
(***************************************************************************)
\* lines 562-568: the finally block writes the local completed and failed
\* (failed is {}: no thread ever sees success False)
DynFinalWrite == save_progress(dcompleted, NoFailed)

InFlight == {ujob[u] : u \in {v \in Units : upc[v] = "run"}}

NotStarted ==
    Range(Slice(tasks, nxt, Len(tasks)))
        \cup {ujob[u] : u \in {v \in Units : upc[v] = "got"}}

\* lines 557-559: the wait loop ends
DynWaitExit ==
    /\ pc = "dyn"
    /\ nxt = Len(tasks)
    /\ active = 0
    /\ DynFinalWrite
    /\ pc' = "join"
    /\ UNCHANGED <<planVars, envVars, outExists, kind, dynamic, limit, tasks,
                   nxt, unitVars, dynVars, interrupted, histVars>>

\* lines 560-568: KeyboardInterrupt in the wait loop
DynInterrupt ==
    /\ pc = "dyn"
    /\ DynFinalWrite
    /\ pc' = "join"
    /\ interrupted' = TRUE
    /\ flightAtInt' = InFlight
    /\ pendAtInt' = NotStarted
    /\ UNCHANGED <<planVars, envVars, outExists, kind, dynamic, limit, tasks,
                   nxt, unitVars, dynVars, startC, startF, startP, exit0, exitN,
                   invoked, runs>>

\* line 553: leaving the `with ThreadPoolExecutor` block joins the threads
DynJoin ==
    /\ pc = "join"
    /\ \A u \in Units : upc[u] = "exit"
    /\ pc' = "done"
    /\ UNCHANGED <<planVars, envVars, fileVars, outExists, kind, dynamic, limit,
                   tasks, nxt, unitVars, dynVars, interrupted, histVars>>

\* lines 698-709: pool.map / pool.imap returned every result
PoolDone ==
    /\ pc = "pool"
    /\ nxt = Len(tasks)
    /\ \A u \in Units : upc[u] = "idle"
    /\ pc' = "done"
    /\ UNCHANGED <<planVars, envVars, fileVars, outExists, kind, dynamic, limit,
                   tasks, nxt, unitVars, dynVars, interrupted, histVars>>

\* lines 698, 708, 734-736: KeyboardInterrupt leaves `with Pool`, whose exit
\* terminates the pool's processes before they record anything; a worker
\* they had started may still write its output file
PoolInterrupt ==
    /\ pc = "pool"
    /\ \E orphans \in SUBSET InFlight : outExists' = outExists \cup orphans
    /\ pc' = "done"
    /\ interrupted' = TRUE
    /\ flightAtInt' = InFlight
    /\ pendAtInt' = NotStarted
    /\ upc' = [u \in Units |-> "idle"]
    /\ ujob' = [u \in Units |-> 0]
    /\ uc' = [u \in Units |-> {}]
    /\ uf' = [u \in Units |-> NoFailed]
    /\ UNCHANGED <<planVars, envVars, fileVars, kind, dynamic, limit, tasks,
                   nxt, dynVars, startC, startF, startP, exit0, exitN, invoked,
                   runs>>

\* lines 711-736: the summary reads both files with an unguarded json.load
\* (the fixed pool's KeyboardInterrupt skips it); the process exits
EndRun ==
    /\ pc = "done"
    /\ IdleRun
    /\ raised' =
          IF (dynamic \/ ~interrupted) /\ fexists /\ ~(cvalid /\ fvalid)
          THEN raised \cup {"JSONDecodeError"} ELSE raised
    /\ UNCHANGED <<planVars, rank, cache_exists, saveVars, scanVars,
                   ledgerVars, rank_files, fileVars,
                   outExists>>

(***************************************************************************)
(* The run machine of one rank.                                            *)
(***************************************************************************)
SaveIdle == [pc |-> "idle", completed_tasks |-> {}, failed_tasks |-> NoFailed]

\* no call of save_progress is followed step by step
NoSave ==
    /\ saving = SaveIdle
    /\ prior = [completed |-> {}, failed |-> NoFailed]

NoCacheFile == [exists |-> FALSE, lines |-> << >>]

\* the catalog load of batch_controller.py is not part of the specification
NoScan ==
    /\ tree = << >>
    /\ cache_file = NoCacheFile
    /\ relative_paths = << >>
    /\ scans = 0
    /\ cache_writes = 0
    /\ cold_paths = << >>
    /\ loads = 0

\* the completion ledger is not part of the specification
NoLedger ==
    /\ ledger = << >>
    /\ flusher = << >>

\* the progress files of the other ranks are not part of the specification
NoPeers == rank_files = << >>

\* the catalog file exists, the progress files decode, nothing was raised
NoFault ==
    /\ cache_exists = TRUE
    /\ raised = {}
    /\ cvalid = TRUE
    /\ fvalid = TRUE
    /\ NoSave
    /\ NoScan
    /\ NoLedger
    /\ NoPeers

\* size-balanced planning is not part of the specification
NoBalance ==
    /\ file_size = << >>
    /\ size_cache = << >>
    /\ planner = << >>

\* no run is in progress: the process has not started its units
NoRun ==
    /\ pc = "idle"
    /\ kind = "none"
    /\ dynamic = FALSE
    /\ limit = 0
    /\ tasks = << >>
    /\ nxt = 0
    /\ upc = [u \in Units |-> "idle"]
    /\ ujob = [u \in Units |-> 0]
    /\ uc = [u \in Units |-> {}]
    /\ uf = [u \in Units |-> NoFailed]
    /\ dcompleted = {}
    /\ active = 0
    /\ interrupted = FALSE
    /\ startC = {}
    /\ startP = {}
    /\ startF = NoFailed
    /\ exit0 = {}
    /\ exitN = {}
    /\ invoked = {}
    /\ runs = [j \in Jobs |-> 0]
    /\ flightAtInt = {}
    /\ pendAtInt = {}

Init ==
    /\ catalog = CatalogOf(NJobs)
    /\ world_size = MaxWorld
    /\ rank \in 0..(world_size - 1)
    /\ node_shard = << >>
    /\ NoBalance
    /\ fexists = FALSE
    /\ cfile = {}
    /\ ffile = NoFailed
    /\ outExists \in SUBSET Jobs
    /\ NoRun
    /\ NoFault

Next ==
    \/ \E dyn \in BOOLEAN, lim \in 0..MaxLimit : StartResume(dyn, lim)
    \/ \E dyn \in BOOLEAN, lim \in 0..MaxLimit : StartNoResume(dyn, lim)
    \/ \E dyn \in BOOLEAN : StartRetry(dyn)
    \/ \E u \in Units : PoolStart(u)
    \/ \E u \in Units : JobSuccess(u)
    \/ \E u \in Units : JobFailure(u)
    \/ \E u \in Units : DynGet(u)
    \/ \E u \in Units : DynStart(u)
    \/ \E u \in Units : DynFinish(u)
    \/ DynWaitExit
    \/ DynInterrupt
    \/ DynJoin
    \/ PoolDone
    \/ PoolInterrupt
    \/ EndRun

Spec == Init /\ [][Next]_vars

(***************************************************************************)
(* The scheduler invoked again and again in resume mode on the same shard, *)
(* without --max, in either execution mode; a run may be interrupted.      *)
(***************************************************************************)
SettleNext ==
    \/ \E dyn \in BOOLEAN : StartResume(dyn, 0)
    \/ \E u \in Units : PoolStart(u)
    \/ \E u \in Units : JobSuccess(u)
    \/ \E u \in Units : JobFailure(u)
    \/ \E u \in Units : DynGet(u)
    \/ \E u \in Units : DynStart(u)
    \/ \E u \in Units : DynFinish(u)
    \/ DynWaitExit
    \/ DynInterrupt
    \/ DynJoin
    \/ PoolDone
    \/ PoolInterrupt
    \/ EndRun

SettleSpec == Init /\ [][SettleNext]_vars

(***************************************************************************)
(* One run of process_tasks_dynamic alone: a first start, or a start after *)
(* a run in which jobs of the shard failed once and none succeeded; the    *)
(* process exits at the end of the run.                                    *)
(***************************************************************************)
DynInit ==
    /\ catalog = CatalogOf(NJobs)
    /\ world_size = MaxWorld
    /\ rank \in 0..(world_size - 1)
    /\ node_shard = << >>
    /\ NoBalance
    /\ fexists \in BOOLEAN
    /\ cfile = {}
    /\ ffile \in [Jobs -> 0..1]
    /\ \A j \in Jobs \ ShardSet : ffile[j] = 0
    /\ ~fexists => ffile = NoFailed
    /\ outExists = {}
    /\ NoRun
    /\ NoFault

DynNext ==
    \/ \E lim \in 0..MaxLimit : StartResume(TRUE, lim)
    \/ \E u \in Units : JobSuccess(u)
    \/ \E u \in Units : JobFailure(u)
    \/ \E u \in Units : DynGet(u)
    \/ \E u \in Units : DynStart(u)
    \/ \E u \in Units : DynFinish(u)
    \/ DynWaitExit
    \/ DynInterrupt
    \/ DynJoin

DynSpec == DynInit /\ [][DynNext]_vars

\* Every thread of the executor and the main thread keep being scheduled,
\* and every worker invocation returns (subprocess.run, line 421, comes
\* back with exit status zero or not).
DynFairness ==
    /\ \A u \in Units :
          /\ WF_vars(DynGet(u))
          /\ WF_vars(DynStart(u))
          /\ WF_vars(JobSuccess(u) \/ JobFailure(u))
          /\ WF_vars(DynFinish(u))
    /\ WF_vars(DynWaitExit)
    /\ WF_vars(DynJoin)

DynFairSpec == DynSpec /\ DynFairness

(***************************************************************************)
(* Several processes, one after another, on the same progress directory:   *)
(* RANK and WORLD_SIZE are read from the environment by every process      *)
(* (lines 42, 211-212), and the progress files carry the rank in their     *)
(* names (lines 47-48), so a process reads and writes the files of its own *)
(* rank only. fexists, cfile, ffile, cvalid and fvalid are the files of    *)
(* the current process's rank; rank_files holds those of every rank as the *)
(* last process of that rank left them.                                    *)
(***************************************************************************)
NoFiles ==
    [exists |-> FALSE, completed |-> {}, failed |-> NoFailed,
     cvalid |-> TRUE, fvalid |-> TRUE]

FilesOnDisk ==
    [exists |-> fexists, completed |-> cfile, failed |-> ffile,
     cvalid |-> cvalid, fvalid |-> fvalid]

\* a start whose progress files do not carry the rank in their names: the
\* new process finds the files the last process left
NewProcess_norank(w, r) ==
    /\ pc = "idle"
    /\ <<w, r>> # <<world_size, rank>>
    /\ world_size' = w
    /\ rank' = r
    /\ UNCHANGED <<rank_files, fileVars>>
    /\ UNCHANGED <<catalog, node_shard, balVars, cache_exists, raised,
                   saveVars, scanVars, ledgerVars, outExists, runVars,
                   unitVars, dynVars, interrupted, histVars>>

\* the process has exited; the scheduler is started with RANK = r and
\* WORLD_SIZE = w
NewProcess(w, r) ==
    /\ pc = "idle"
    /\ <<w, r>> # <<world_size, rank>>
    /\ world_size' = w
    /\ rank' = r
    /\ rank_files' = [rank_files EXCEPT ![rank] = FilesOnDisk]
    /\ fexists' = rank_files'[r].exists
    /\ cfile' = rank_files'[r].completed
    /\ ffile' = rank_files'[r].failed
    /\ cvalid' = rank_files'[r].cvalid
    /\ fvalid' = rank_files'[r].fvalid
    /\ UNCHANGED <<catalog, node_shard, balVars, cache_exists, raised,
                   saveVars, scanVars, ledgerVars, outExists, runVars,
                   unitVars, dynVars, interrupted, histVars>>

\* a first start on an empty progress directory, no output written yet
CrossInit ==
    /\ catalog = CatalogOf(NJobs)
    /\ world_size \in 1..MaxWorld
    /\ rank \in 0..(world_size - 1)
    /\ rank_files = [r \in 0..(MaxWorld - 1) |-> NoFiles]
    /\ cache_exists = TRUE
    /\ raised = {}
    /\ cvalid = TRUE
    /\ fvalid = TRUE
    /\ NoSave
    /\ NoScan
    /\ NoLedger
    /\ node_shard = << >>
    /\ NoBalance
    /\ fexists = FALSE
    /\ cfile = {}
    /\ ffile = NoFailed
    /\ outExists = {}
    /\ NoRun

\* resume-mode runs with --dynamic and without --max, each left to run to
\* its end; between two processes the cluster may be enlarged
CrossNext ==
    \/ StartResume(TRUE, 0)
    \/ \E u \in Units : JobSuccess(u)
    \/ \E u \in Units : JobFailure(u)
    \/ \E u \in Units : DynGet(u)
    \/ \E u \in Units : DynStart(u)
    \/ \E u \in Units : DynFinish(u)
    \/ DynWaitExit
    \/ DynJoin
    \/ EndRun
    \/ \E w \in 1..MaxWorld, r \in 0..(MaxWorld - 1) :
          r < w /\ w >= world_size /\ NewProcess(w, r)

CrossSpec == CrossInit /\ [][CrossNext]_vars

\* the progress files completed_tasks_rank{q}.json and
\* failed_tasks_rank{q}.json as they are on disk
ProgressFilesOf(q) == IF q = rank THEN FilesOnDisk ELSE rank_files[q]

\* the ranks of a cluster of MaxWorld nodes run one after another, without
\* interruption: rank 0, which leaves the first files, once in resume mode
\* with the fixed pool and --max 1, every later rank in any mode, without
\* --max and any number of times
RanksNext ==
    \/ rank = 0 /\ ~fexists /\ StartResume(FALSE, 1)
    \/ \E dyn \in BOOLEAN : rank > 0 /\ StartResume(dyn, 0)
    \/ \E dyn \in BOOLEAN : rank > 0 /\ StartNoResume(dyn, 0)
    \/ \E dyn \in BOOLEAN : rank > 0 /\ StartRetry(dyn)
    \/ \E u \in Units : PoolStart(u)
    \/ \E u \in Units : JobSuccess(u)
    \/ \E u \in Units : JobFailure(u)
    \/ \E u \in Units : DynGet(u)
    \/ \E u \in Units : DynStart(u)
    \/ \E u \in Units : DynFinish(u)
    \/ DynWaitExit
    \/ DynJoin
    \/ PoolDone
    \/ EndRun
    \/ \E r \in 0..(MaxWorld - 1) : r > rank /\ NewProcess(world_size, r)

RanksInit == CrossInit /\ world_size = MaxWorld /\ rank = 0

RanksSpec == RanksInit /\ [][RanksNext]_vars

(***************************************************************************)
(* Shard planning alone: every rank's process computes its own slice of    *)
(* the same catalog.                                                       *)
(***************************************************************************)
NotPlanned == <<0>>

ShardInit ==
    /\ catalog \in {CatalogOf(n) : n \in 0..MaxCat}
    /\ world_size \in 1..MaxWorldPlan
    /\ node_shard = [r \in 0..(world_size - 1) |-> NotPlanned]
    /\ NoBalance
    /\ rank = 0
    /\ fexists = FALSE
    /\ cfile = {}
    /\ ffile = NoFailed
    /\ outExists = {}
    /\ NoRun
    /\ NoFault

\* the process with RANK = r slices the catalog (lines 338-343)
PlanChunk(r) ==
    /\ node_shard[r] = NotPlanned
    /\ node_shard' = [node_shard EXCEPT ![r] = ChunkShard(catalog, world_size, r)]
    /\ UNCHANGED <<catalog, world_size, balVars, envVars, fileVars, outExists,
                   runVars, unitVars, dynVars, interrupted, histVars>>

ShardNext == \E r \in 0..(world_size - 1) : PlanChunk(r)

ShardSpec == ShardInit /\ [][ShardNext]_vars

(***************************************************************************)
(* The resume filter alone: get_tasks(resume=True) applied to a progress   *)
(* record and a set of existing outputs drawn from bounded sets. Failed    *)
(* entries are drawn for the rank's own jobs, the only ones its units      *)
(* ever record.                                                            *)
(***************************************************************************)
ClassifyInit ==
    /\ catalog = CatalogOf(NJobs)
    /\ world_size = MaxWorld
    /\ rank \in 0..(world_size - 1)
    /\ node_shard = << >>
    /\ NoBalance
    /\ fexists \in BOOLEAN
    /\ cfile \in SUBSET Jobs
    /\ ffile \in [Jobs -> 0..MaxCount]
    /\ \A j \in Jobs \ ShardSet : ffile[j] = 0
    /\ ~fexists => (cfile = {} /\ ffile = NoFailed)
    /\ outExists \in SUBSET Jobs
    /\ NoRun
    /\ NoFault

ClassifyNext ==
    \E dyn \in BOOLEAN, lim \in 0..MaxLimit : StartResume(dyn, lim)

ClassifySpec == ClassifyInit /\ [][ClassifyNext]_vars

(***************************************************************************)
(* The fresh start alone: get_tasks(resume=False) applied to a progress    *)
(* record and a set of existing outputs drawn from bounded sets.           *)
(***************************************************************************)
FreshNext ==
    \E dyn \in BOOLEAN, lim \in 0..MaxLimit : StartNoResume(dyn, lim)

FreshSpec == ClassifyInit /\ [][FreshNext]_vars

(***************************************************************************)
(* The start of main alone, from the command line to the launch of the     *)
(* units, in an environment drawn from bounded sets: RANK and WORLD_SIZE   *)
(* as the environment variables give them (line 211-212 take any integer), *)
(* the catalog file present or not, and progress files left by earlier     *)
(* runs, whole or cut short.                                               *)
(***************************************************************************)
StartInit ==
    /\ catalog = CatalogOf(NJobs)
    /\ world_size \in -1..MaxWorld
    /\ rank \in -1..MaxWorld
    /\ cache_exists \in BOOLEAN
    /\ raised = {}
    /\ NoSave
    /\ NoScan
    /\ NoLedger
    /\ NoPeers
    /\ node_shard = << >>
    /\ NoBalance
    /\ fexists \in BOOLEAN
    /\ cfile \in SUBSET Jobs
    /\ ffile \in {NoFailed}
                   \cup {[NoFailed EXCEPT ![j] = n] : j \in Jobs, n \in 1..MaxCount}
    /\ cvalid \in BOOLEAN
    /\ fvalid \in BOOLEAN
    /\ ~fexists => (cvalid /\ fvalid)
    /\ ~(fexists /\ cvalid) => cfile = {}
    /\ ~(fexists /\ fvalid) => ffile = NoFailed
    /\ outExists \in SUBSET Jobs
    /\ NoRun

StartNext ==
    \/ \E dyn \in BOOLEAN, lim \in 0..MaxLimit : StartResume(dyn, lim)
    \/ \E dyn \in BOOLEAN, lim \in 0..MaxLimit : StartNoResume(dyn, lim)
    \/ \E dyn \in BOOLEAN : StartRetry(dyn)
    \/ GetTasksRaises

StartSpec == StartInit /\ [][StartNext]_vars

(***************************************************************************)
(* save_progress, lines 147-155, followed statement by statement, with the *)
(* process killed at any point of it. open(path, "w") truncates the file;  *)
(* until json.dump has written the whole document and the file is closed,  *)
(* the file does not decode.                                               *)
(***************************************************************************)
\* everything outside the progress files and the call of save_progress
restOfSave ==
    <<planVars, rank, cache_exists, raised, scanVars, ledgerVars, rank_files, outExists,
      runVars, unitVars, dynVars, interrupted, histVars>>

\* run_blender_remesh, lines 417-460, up to its call of save_progress: the
\* record loaded at line 417 with the outcome of job j (ok: exit status 0)
SaveCall(j, ok) ==
    /\ saving.pc = "idle"
    /\ ok \/ LoadedFailed[j] < MaxCount
    /\ prior' = [completed |-> LoadedCompleted, failed |-> LoadedFailed]
    /\ saving' =
          [pc |-> "open_completed",
           completed_tasks |->
              IF ok THEN CompletedAfterSuccess(LoadedCompleted, j)
              ELSE LoadedCompleted,
           failed_tasks |->
              IF ok THEN FailedAfterSuccess(LoadedFailed, j)
              ELSE FailedAfterFailure(LoadedFailed, j)]
    /\ UNCHANGED <<fileVars, restOfSave>>

\* line 151
SaveOpenCompleted ==
    /\ saving.pc = "open_completed"
    /\ fexists' = TRUE
    /\ cvalid' = FALSE
    /\ saving' = [saving EXCEPT !.pc = "dump_completed"]
    /\ UNCHANGED <<cfile, ffile, fvalid, prior, restOfSave>>

\* line 152 and the end of the with block
SaveDumpCompleted ==
    /\ saving.pc = "dump_completed"
    /\ cfile' = saving.completed_tasks
    /\ cvalid' = TRUE
    /\ saving' = [saving EXCEPT !.pc = "open_failed"]
    /\ UNCHANGED <<fexists, ffile, fvalid, prior, restOfSave>>

\* line 154
SaveOpenFailed ==
    /\ saving.pc = "open_failed"
    /\ fvalid' = FALSE
    /\ saving' = [saving EXCEPT !.pc = "dump_failed"]
    /\ UNCHANGED <<fexists, cfile, ffile, cvalid, prior, restOfSave>>

\* line 155 and the end of the with block: save_progress returns
SaveDumpFailed ==
    /\ saving.pc = "dump_failed"
    /\ ffile' = saving.failed_tasks
    /\ fvalid' = TRUE
    /\ saving' = SaveIdle
    /\ UNCHANGED <<fexists, cfile, cvalid, prior, restOfSave>>

\* the process is killed inside save_progress
SaveCrash ==
    /\ saving.pc \notin {"idle", "crashed"}
    /\ saving' = [saving EXCEPT !.pc = "crashed"]
    /\ UNCHANGED <<fileVars, prior, restOfSave>>

\* the scheduler is started again
SaveRestart ==
    /\ saving.pc = "crashed"
    /\ saving' = SaveIdle
    /\ UNCHANGED <<fileVars, prior, restOfSave>>

\* both files hold what an earlier save wrote
SaveInit ==
    /\ catalog = CatalogOf(NJobs)
    /\ world_size = 1
    /\ rank = 0
    /\ cache_exists = TRUE
    /\ raised = {}
    /\ NoSave
    /\ NoScan
    /\ NoLedger
    /\ NoPeers
    /\ node_shard = << >>
    /\ NoBalance
    /\ fexists = TRUE
    /\ cfile \in SUBSET Jobs
    /\ ffile \in [Jobs -> 0..MaxCount]
    /\ cvalid = TRUE
    /\ fvalid = TRUE
    /\ outExists = {}
    /\ NoRun

SaveNext ==
    \/ \E j \in Jobs, ok \in BOOLEAN : SaveCall(j, ok)
    \/ SaveOpenCompleted
    \/ SaveDumpCompleted
    \/ SaveOpenFailed
    \/ SaveDumpFailed
    \/ SaveCrash
    \/ SaveRestart

SaveSpec == SaveInit /\ [][SaveNext]_vars

(***************************************************************************)
(* get_tasks of src/batch_controller.py, lines 13-41: the catalog load     *)
(* with its directory scan. A name is <<base, blank>>: blank = 1 when the  *)
(* name ends in a blank, and "a" sorts before "a ". A relative path is     *)
(* <<factory, sample>>, a pair of names.                                   *)
(***************************************************************************)
FactoryNames == (1..MaxFactories) \X {0}

SampleNames == (1..MaxSamples) \X {0, 1}

RelPaths == FactoryNames \X SampleNames

\* the order of Python strings on names
NameLess(a, b) == a[1] < b[1] \/ (a[1] = b[1] /\ a[2] < b[2])

\* line 17: line.strip() removes the newline and the blanks at the end of
\* the sample name
strip(p) == <<p[1], <<p[2][1], 0>>>>

\* the orders in which os.listdir may enumerate the entries S
Orders(S) == {o \in [1..Cardinality(S) -> S] : Range(o) = S}

RECURSIVE Insert(_, _)
Insert(x, s) ==
    IF s = << >> THEN <<x>>
    ELSE IF NameLess(x, s[1]) THEN <<x>> \o s
    ELSE <<s[1]>> \o Insert(x, Tail(s))

\* sorted(...) of lines 21 and 27
RECURSIVE sorted(_)
sorted(s) == IF s = << >> THEN << >> ELSE Insert(s[1], sorted(Tail(s)))

\* the entries of factory directory f
Entries(f) == {n \in SampleNames : tree[<<f, n>>] # "none"}

\* lines 27-36: the sorted entries of factory f that are files
SamplesOf(f, listing) ==
    LET isfile(n) == tree[<<f, n>>] = "file"
        samples == SelectSeq(sorted(listing), isfile)
    IN  [i \in DOMAIN samples |-> <<f, samples[i]>>]

\* lines 24-36: the loop over factory_dirs; idx is the loop's position
RECURSIVE ScanFactories(_, _, _)
ScanFactories(factory_dirs, idx, listings) ==
    IF idx > Len(factory_dirs) THEN << >>
    ELSE SamplesOf(factory_dirs[idx], listings[factory_dirs[idx]])
            \o ScanFactories(factory_dirs, idx + 1, listings)

\* everything outside the catalog load
restOfScan ==
    <<planVars, rank, cache_exists, raised, saveVars, ledgerVars, rank_files, fileVars,
      outExists, runVars, unitVars, dynVars, interrupted, histVars>>

\* lines 14-17: the cache file exists
CatalogRead ==
    /\ loads < MaxLoads
    /\ cache_file.exists
    /\ loads' = loads + 1
    /\ relative_paths' =
          [i \in DOMAIN cache_file.lines |-> strip(cache_file.lines[i])]
    /\ UNCHANGED <<tree, cache_file, scans, cache_writes, cold_paths,
                   restOfScan>>

\* lines 18-41: no cache file: the scan, with os.listdir enumerating each
\* directory in some order, and the write of the cache file
CatalogScan ==
    /\ loads < MaxLoads
    /\ ~cache_file.exists
    /\ loads' = loads + 1
    /\ \E factory_order \in Orders(FactoryNames) :
       \E listings \in [FactoryNames ->
                          UNION {Orders(S) : S \in SUBSET SampleNames}] :
          /\ \A f \in FactoryNames : listings[f] \in Orders(Entries(f))
          /\ LET found == ScanFactories(sorted(factory_order), 1, listings)
             IN  /\ relative_paths' = found
                 /\ cache_file' = [exists |-> TRUE, lines |-> found]
                 /\ cold_paths' = found
    /\ scans' = scans + 1
    /\ cache_writes' = cache_writes + 1
    /\ UNCHANGED <<tree, restOfScan>>

\* the sequences over S of length at most n
RECURSIVE SeqsUpTo(_, _)
SeqsUpTo(S, n) ==
    IF n = 0 THEN {<< >>}
    ELSE SeqsUpTo(S, n - 1) \cup [1..n -> S]

\* a directory tree, and no cache file or one left by an earlier run
ScanInit ==
    /\ tree \in [RelPaths -> {"none", "file", "dir"}]
    /\ cache_file \in {NoCacheFile}
                        \cup {[exists |-> TRUE, lines |-> l] :
                                 l \in SeqsUpTo(RelPaths, MaxCacheLen)}
    /\ relative_paths = << >>
    /\ scans = 0
    /\ cache_writes = 0
    /\ cold_paths = << >>
    /\ loads = 0
    /\ catalog = << >>
    /\ world_size = 1
    /\ rank = 0
    /\ cache_exists = TRUE
    /\ raised = {}
    /\ NoSave
    /\ NoLedger
    /\ NoPeers
    /\ node_shard = << >>
    /\ NoBalance
    /\ fexists = FALSE
    /\ cfile = {}
    /\ ffile = NoFailed
    /\ cvalid = TRUE
    /\ fvalid = TRUE
    /\ outExists = {}
    /\ NoRun

ScanNext ==
    \/ CatalogRead
    \/ CatalogScan

ScanSpec == ScanInit /\ [][ScanNext]_vars

(***************************************************************************)
(* The cluster-shared completion ledger, as the design text describes it   *)
(* (its sections 3 and 4.4): a line-delimited, append-only file of job     *)
(* ids; each rank keeps its completion set in memory and flushes it by     *)
(* reading the set on disk and appending what it has not yet flushed; the  *)
(* writers take no lock, so a read and its append are two steps.           *)
(***************************************************************************)
LedgerRanks == 0..(MaxLedgerRanks - 1)

LedgerJobs == 1..MaxLedgerJobs

FlusherIdle ==
    [pc |-> "idle", completed |-> {}, flushed |-> {}, on_disk |-> {}]

\* read(): the set of the job ids on the ledger's lines (the ledger is kept
\* as the number of lines that hold each job id; the order of the lines
\* plays no part in a read)
LedgerSet == {j \in DOMAIN ledger : ledger[j] > 0}

\* the ledger with one more line for each job id of S
AppendLines(S) == [j \in DOMAIN ledger |-> ledger[j] + (IF j \in S THEN 1 ELSE 0)]

\* variant of the delta that writes the whole completion set again
LedgerDelta_all(f) == f.completed

\* what a flush appends: the completion set without what was read from the
\* disk and without what this rank has already flushed
LedgerDelta(f) == f.completed \ (f.flushed \cup f.on_disk)

\* the ranks that may come to run job j: a job may run redundantly on two
\* ranks when both claim it before either flushes
Claimants(j) == {j % MaxLedgerRanks, (j + 1) % MaxLedgerRanks}

\* a job succeeded on rank r: its in-memory completion set grows
MarkCompleted(r, j) ==
    /\ r \in Claimants(j)
    /\ j \notin flusher[r].completed
    /\ flusher' = [flusher EXCEPT ![r].completed = @ \cup {j}]
    /\ UNCHANGED <<ledger, planVars, rank, cache_exists, raised, saveVars,
                   scanVars, rank_files, fileVars, outExists, runVars, unitVars, dynVars,
                   interrupted, histVars>>

\* the first half of a flush of rank r: read the current on-disk set
LedgerRead(r) ==
    /\ flusher[r].pc = "idle"
    /\ flusher' = [flusher EXCEPT ![r].pc = "read", ![r].on_disk = LedgerSet]
    /\ UNCHANGED <<ledger, planVars, rank, cache_exists, raised, saveVars,
                   scanVars, rank_files, fileVars, outExists, runVars, unitVars, dynVars,
                   interrupted, histVars>>

\* the second half: append the delta, and remember what is now flushed
LedgerAppend(r) ==
    /\ flusher[r].pc = "read"
    /\ ledger' = AppendLines(LedgerDelta(flusher[r]))
    /\ flusher' = [flusher EXCEPT
          ![r].pc = "idle",
          ![r].flushed = @ \cup flusher[r].on_disk \cup LedgerDelta(flusher[r]),
          ![r].on_disk = {}]
    /\ UNCHANGED <<planVars, rank, cache_exists, raised, saveVars, scanVars,
                   rank_files, fileVars, outExists, runVars, unitVars, dynVars,
                   interrupted, histVars>>

\* the ledger of a first run: no line yet, no rank has completed a job
LedgerInit ==
    /\ ledger = [j \in LedgerJobs |-> 0]
    /\ flusher = [r \in LedgerRanks |-> FlusherIdle]
    /\ NoPeers
    /\ catalog = CatalogOf(MaxLedgerJobs)
    /\ world_size = MaxLedgerRanks
    /\ rank = 0
    /\ cache_exists = TRUE
    /\ raised = {}
    /\ cvalid = TRUE
    /\ fvalid = TRUE
    /\ NoSave
    /\ NoScan
    /\ node_shard = << >>
    /\ NoBalance
    /\ fexists = FALSE
    /\ cfile = {}
    /\ ffile = NoFailed
    /\ outExists = {}
    /\ NoRun

LedgerNext ==
    \/ \E r \in LedgerRanks, j \in LedgerJobs : MarkCompleted(r, j)
    \/ \E r \in LedgerRanks : LedgerRead(r)
    \/ \E r \in LedgerRanks : LedgerAppend(r)

LedgerSpec == LedgerInit /\ [][LedgerNext]_vars

(***************************************************************************)
(* get_tasks, lines 222-337: size-balanced planning. A path is ordered by  *)
(* its job id. Sizes are kept as integers: under sampling every size is    *)
(* multiplied by len(sampled_indices), which changes neither the sort nor  *)
(* the choice of the least loaded node.                                    *)
(***************************************************************************)
Absent == -1

MinOf(S) == CHOOSE x \in S : \A y \in S : x <= y

MaxOf(S) == CHOOSE x \in S : \A y \in S : x >= y

RECURSIVE SumOver(_, _)
SumOver(S, f) ==
    IF S = {} THEN 0
    ELSE LET x == CHOOSE y \in S : TRUE IN f[x] + SumOver(S \ {x}, f)

\* get_file_size, lines 157-175: the cached entry, else the size on disk
\* (0 when os.path.getsize raises)
get_file_size(j, cache) == IF cache[j] # Absent THEN cache[j] ELSE file_size[j]

\* line 236
Sampling(n) == sample_size > 0 /\ sample_size < n

\* line 239
sample_step(n) == n \div sample_size

\* line 240 without the slice [:sample_size]
sampled_indices_uncut(n) ==
    {i \in 0..(n - 1) : i % sample_step(n) = 0}

\* line 240: list(range(0, n, sample_step))[:sample_size]
sampled_indices(n) ==
    {i \in 0..(n - 1) :
        i % sample_step(n) = 0 /\ i \div sample_step(n) < sample_size}

\* the jobs whose size get_file_size is asked for (lines 250-252, 286-287)
MeasuredJobs(all_paths) ==
    IF Sampling(Len(all_paths))
    THEN {all_paths[i + 1] : i \in sampled_indices(Len(all_paths))}
    ELSE Range(all_paths)

\* size_cache after the calls of get_file_size (lines 169-174)
CacheAfter(all_paths, cache) ==
    LET measured == MeasuredJobs(all_paths)
    IN  [j \in DOMAIN cache |->
            IF j \in measured THEN get_file_size(j, cache) ELSE cache[j]]

CacheEntries(cache) == {j \in DOMAIN cache : cache[j] # Absent}

\* lines 243-288: the size each job is given
SizeOf(all_paths, cache, j) ==
    IF Sampling(Len(all_paths))
    THEN LET measured == [k \in MeasuredJobs(all_paths) |->
                             get_file_size(k, cache)]
             total_sampled_size == SumOver(MeasuredJobs(all_paths), measured)
         IN  IF j \in MeasuredJobs(all_paths)
             THEN Cardinality(MeasuredJobs(all_paths)) * measured[j]
             ELSE total_sampled_size
    ELSE get_file_size(j, cache)

\* the order of Python's tuples (size, input_path, ...)
TupleGreater(a, b) == a[1] > b[1] \/ (a[1] = b[1] /\ a[2] > b[2])

\* line 298: sized_paths.sort(reverse=True)
RECURSIVE SortReverse(_)
SortReverse(S) ==
    IF S = {} THEN << >>
    ELSE LET m == CHOOSE x \in S : \A y \in S \ {x} : TupleGreater(x, y)
         IN  <<m>> \o SortReverse(S \ {m})

sized_paths(all_paths, cache) ==
    SortReverse({<<SizeOf(all_paths, cache, j), j>> : j \in Range(all_paths)})

\* variant of line 319 that takes the most loaded node
target_node_heaviest(node_sizes) ==
    MinOf({n \in DOMAIN node_sizes : node_sizes[n] = MaxOf(Range(node_sizes))})

\* variant of line 319 that takes the last of the least loaded nodes
target_node_last(node_sizes) ==
    MaxOf({n \in DOMAIN node_sizes : node_sizes[n] = MinOf(Range(node_sizes))})

\* line 319: node_sizes.index(min(node_sizes)), the first such position
target_node(node_sizes) ==
    MinOf({n \in DOMAIN node_sizes : node_sizes[n] = MinOf(Range(node_sizes))})

\* lines 317-325: the loop over sized_paths; i is the loop's position
RECURSIVE Balance(_, _, _, _)
Balance(sized, i, node_assignments, node_sizes) ==
    IF i > Len(sized)
    THEN [node_assignments |-> node_assignments, node_sizes |-> node_sizes]
    ELSE LET t == target_node(node_sizes)
         IN  Balance(sized, i + 1,
                     [node_assignments EXCEPT ![t] = Append(@, sized[i][2])],
                     [node_sizes EXCEPT ![t] = @ + sized[i][1]])

PlannerIdle ==
    [pc |-> "idle", size_cache |-> << >>, sized_paths |-> << >>,
     node_assignments |-> << >>, node_sizes |-> << >>]

\* line 228: load_size_cache() in the process of rank r
BalLoad(r) ==
    /\ world_size > 1
    /\ planner[r].pc = "idle"
    /\ planner' = [planner EXCEPT ![r].pc = "loaded",
                                  ![r].size_cache = size_cache]
    /\ UNCHANGED <<catalog, world_size, node_shard, file_size, size_cache,
                   envVars, fileVars, outExists, runVars, unitVars, dynVars,
                   interrupted, histVars>>

\* lines 232-337 in the process of rank r: the sizes, the cache file (written
\* when the process added an entry, lines 291-292), the sort and the
\* assignment
BalPlan(r) ==
    /\ planner[r].pc = "loaded"
    /\ LET cache == planner[r].size_cache
           after == CacheAfter(catalog, cache)
           sized == sized_paths(catalog, cache)
           b == Balance(sized, 1, [n \in 0..(world_size - 1) |-> << >>],
                        [n \in 0..(world_size - 1) |-> 0])
       IN  /\ size_cache' =
                 IF Cardinality(CacheEntries(after))
                       > Cardinality(CacheEntries(cache))
                 THEN after ELSE size_cache
           /\ planner' = [planner EXCEPT ![r] =
                 [pc |-> "planned", size_cache |-> after, sized_paths |-> sized,
                  node_assignments |-> b.node_assignments,
                  node_sizes |-> b.node_sizes]]
           /\ node_shard' = [node_shard EXCEPT ![r] = b.node_assignments[r]]
    /\ UNCHANGED <<catalog, world_size, file_size, envVars, fileVars,
                   outExists, runVars, unitVars, dynVars, interrupted,
                   histVars>>

\* line 222 is false for one node: lines 338-343 slice the catalog
BalFallback(r) ==
    /\ world_size <= 1
    /\ planner[r].pc = "idle"
    /\ planner' = [planner EXCEPT ![r].pc = "sliced"]
    /\ node_shard' = [node_shard EXCEPT ![r] = ChunkShard(catalog, world_size, r)]
    /\ UNCHANGED <<catalog, world_size, file_size, size_cache, envVars,
                   fileVars, outExists, runVars, unitVars, dynVars, interrupted,
                   histVars>>

\* the input file of job j is removed or becomes unreadable while the
\* nodes are starting
FileLost(j) ==
    /\ file_size[j] # 0
    /\ \E r \in DOMAIN planner : planner[r].pc # "idle"
    /\ \E r \in DOMAIN planner : planner[r].pc \in {"idle", "loaded"}
    /\ file_size' = [file_size EXCEPT ![j] = 0]
    /\ UNCHANGED <<catalog, world_size, node_shard, size_cache, planner,
                   envVars, fileVars, outExists, runVars, unitVars, dynVars,
                   interrupted, histVars>>

\* every node process runs get_tasks(balance_by_size=True) on the same
\* catalog; the size cache file starts empty
LptInit ==
    /\ catalog \in {CatalogOf(n) : n \in 0..MaxBalCat}
    /\ world_size \in 1..MaxWorldBal
    /\ node_shard = [r \in 0..(world_size - 1) |-> NotPlanned]
    /\ file_size \in [Range(catalog) -> 0..MaxSize]
    /\ size_cache = [j \in Range(catalog) |-> Absent]
    /\ planner = [r \in 0..(world_size - 1) |-> PlannerIdle]
    /\ rank = 0
    /\ fexists = FALSE
    /\ cfile = {}
    /\ ffile = NoFailed
    /\ outExists = {}
    /\ NoRun
    /\ NoFault

LptNext ==
    \/ \E r \in 0..(world_size - 1) : BalLoad(r)
    \/ \E r \in 0..(world_size - 1) : BalPlan(r)
    \/ \E r \in 0..(world_size - 1) : BalFallback(r)

\* the files do not change while the nodes plan
LptSpec == LptInit /\ [][LptNext]_vars

(***************************************************************************)
(* Sampled size estimation alone, lines 232-292 of get_tasks, on catalogs  *)
(* longer than sample_size: the size given to every path, before the sort  *)
(* of line 298. File sizes follow a pattern over the catalog; the size     *)
(* cache file starts empty.                                                *)
(***************************************************************************)
\* the sum of f over the members of S in lo..hi, halving the interval (the
\* sum of SumOver for sets of integers too large for its recursion)
RECURSIVE SumIn(_, _, _, _)
SumIn(S, f, lo, hi) ==
    IF lo > hi THEN 0
    ELSE IF lo = hi THEN (IF lo \in S THEN f[lo] ELSE 0)
    ELSE LET mid == (lo + hi) \div 2
         IN  SumIn(S, f, lo, mid) + SumIn(S, f, mid + 1, hi)

\* lines 243-288: sized_paths as the loops build it, in catalog order; the
\* sum of line 252 is taken once, as the loop of lines 250-252 does
sized_in_order(all_paths, cache) ==
    LET n == Len(all_paths)
        measured == MeasuredJobs(all_paths)
        count == Cardinality(measured)
        total_sampled_size ==
            SumIn(measured, [k \in measured |-> get_file_size(k, cache)],
                  1, n)
    IN  [i \in 1..n |->
            LET j == all_paths[i]
            IN  IF ~Sampling(n) THEN <<get_file_size(j, cache), j>>
                ELSE IF j \in measured
                THEN <<count * get_file_size(j, cache), j>>
                ELSE <<total_sampled_size, j>>]

\* lines 232-292 in the process of rank r
BalSize(r) ==
    /\ planner[r].pc = "loaded"
    /\ LET cache == planner[r].size_cache
           after == CacheAfter(catalog, cache)
       IN  /\ size_cache' =
                 IF Cardinality(CacheEntries(after))
                       > Cardinality(CacheEntries(cache))
                 THEN after ELSE size_cache
           /\ planner' = [planner EXCEPT ![r] =
                 [pc |-> "sized", size_cache |-> after,
                  sized_paths |-> sized_in_order(catalog, cache),
                  node_assignments |-> << >>, node_sizes |-> << >>]]
    /\ UNCHANGED <<catalog, world_size, node_shard, file_size, envVars,
                   fileVars, outExists, runVars, unitVars, dynVars,
                   interrupted, histVars>>

SizePattern(S, a, b) == [j \in S |-> (a * j + b) % (MaxSize + 1)]

SampleInit ==
    /\ catalog \in {CatalogOf(m * sample_size + e) :
                       m \in 1..MaxSampleMult, e \in 0..MaxSampleOver}
    /\ world_size = 2
    /\ node_shard = [r \in 0..(world_size - 1) |-> NotPlanned]
    /\ file_size \in {SizePattern(Range(catalog), a, b) :
                         a \in 0..MaxSize, b \in 0..MaxSize}
    /\ size_cache = [j \in Range(catalog) |-> Absent]
    /\ planner = [r \in 0..(world_size - 1) |-> PlannerIdle]
    /\ rank = 0
    /\ fexists = FALSE
    /\ cfile = {}
    /\ ffile = NoFailed
    /\ outExists = {}
    /\ NoRun
    /\ NoFault

SampleNext ==
    \/ \E r \in 0..(world_size - 1) : BalLoad(r)
    \/ \E r \in 0..(world_size - 1) : BalSize(r)

SampleSpec == SampleInit /\ [][SampleNext]_vars

(***************************************************************************)
(* main started with --balance-by-size --sample-sizes s. parse_args (line  *)
(* 608) binds the options to `args`, a local of main; get_tasks is called  *)
(* with limit, resume and balance_by_size only (lines 677-679), and line   *)
(* 235 looks for `args` among the module's globals, where it never is: the *)
(* sizes are taken with sample_size, whatever s. The planner's record      *)
(* keeps s as the command line gave it.                                    *)
(***************************************************************************)
BalSizeArgs(r, s) ==
    /\ planner[r].pc = "loaded"
    /\ LET cache == planner[r].size_cache
           after == CacheAfter(catalog, cache)
       IN  /\ size_cache' =
                 IF Cardinality(CacheEntries(after))
                       > Cardinality(CacheEntries(cache))
                 THEN after ELSE size_cache
           /\ planner' = [planner EXCEPT ![r] =
                 [pc |-> "sized", size_cache |-> after,
                  sized_paths |-> sized_in_order(catalog, cache),
                  node_assignments |-> << >>, node_sizes |-> << >>,
                  sample_sizes |-> s]]
    /\ UNCHANGED <<catalog, world_size, node_shard, file_size, envVars,
                   fileVars, outExists, runVars, unitVars, dynVars,
                   interrupted, histVars>>

DepthNext ==
    \/ \E r \in 0..(world_size - 1) : BalLoad(r)
    \/ \E r \in 0..(world_size - 1), s \in 0..MaxDepth : BalSizeArgs(r, s)

DepthSpec == SampleInit /\ [][DepthNext]_vars

RaceNext ==
    \/ LptNext
    \/ \E j \in Range(catalog) : FileLost(j)

\* a file may be lost between two nodes' measurements
RaceSpec == LptInit /\ [][RaceNext]_vars

(***************************************************************************)
(* Claims about shard planning (ShardSpec).                                *)
(***************************************************************************)
Ranks == 0..(world_size - 1)

AllPlanned == \A r \in Ranks : node_shard[r] # NotPlanned

\* the places (rank, position) at which job j stands in the planned shards
PlacesOf(j) ==
    {p \in UNION {{<<r, i>> : i \in DOMAIN node_shard[r]} : r \in Ranks} :
        node_shard[p[1]][p[2]] = j}

\* s lists jobs in catalog order (catalog job ids are catalog positions)
InCatalogOrder(s) ==
    /\ \A i \in DOMAIN s : s[i] \in Range(catalog)
    /\ \A i, k \in DOMAIN s : i < k => s[i] < s[k]

\* C1: once every rank 0..W-1 has computed its contiguous chunk, every
\* catalog entry stands in exactly one rank's shard, exactly once, and every
\* shard lists its jobs in catalog order (for every catalog size 0..MaxCat
\* and world size 1..MaxWorldPlan).
C1_ChunkPartition ==
    /\ \A r \in Ranks :
         node_shard[r] # NotPlanned => InCatalogOrder(node_shard[r])
    /\ AllPlanned => \A j \in Range(catalog) : Cardinality(PlacesOf(j)) = 1

\* C1's case: five jobs over four ranks, all planned (the last rank's chunk
\* starts past the end of the catalog)
C1_Witness ==
    /\ AllPlanned
    /\ Len(catalog) = 5
    /\ world_size = 4
    /\ node_shard[3] = << >>

CeilDiv(n, w) == CHOOSE k \in 0..n : k * w >= n /\ (k = 0 \/ (k - 1) * w < n)

Planned(r) == planner[r].pc = "planned"

\* the node to which rank r's plan gave the job it took at step k
TargetOf(r, k) ==
    CHOOSE n \in Ranks :
        planner[r].sized_paths[k][2] \in Range(planner[r].node_assignments[n])

\* the cost rank r's plan had given to node n before it took step k
LoadBefore(r, n, k) ==
    SumOver({i \in 1..(k - 1) : TargetOf(r, i) = n},
            [i \in 1..(k - 1) |-> planner[r].sized_paths[i][1]])

\* C11: a rank's size-balanced plan takes every job of the catalog once, at
\* its measured size, in descending order of size, and gives each to a node
\* whose cost so far is lowest, the lowest-numbered of these; the rank's
\* shard is what the plan gave to its own node; and with unchanged sizes
\* every rank computes the same assignment.
C11_GreedyLPT ==
    /\ \A r \in Ranks :
         Planned(r) =>
            LET sp == planner[r].sized_paths
                na == planner[r].node_assignments
            IN  /\ Len(sp) = Len(catalog)
                /\ {sp[k][2] : k \in DOMAIN sp} = Range(catalog)
                /\ \A k \in DOMAIN sp : sp[k][1] = file_size[sp[k][2]]
                /\ \A i, k \in DOMAIN sp : i < k => sp[i][1] >= sp[k][1]
                /\ \A j \in Range(catalog) :
                      Cardinality({n \in Ranks : j \in Range(na[n])}) = 1
                /\ \A k \in DOMAIN sp : \A n \in Ranks :
                      /\ LoadBefore(r, TargetOf(r, k), k) <= LoadBefore(r, n, k)
                      /\ n < TargetOf(r, k) =>
                            LoadBefore(r, TargetOf(r, k), k) < LoadBefore(r, n, k)
                /\ node_shard[r] = na[r]
    /\ \A r1, r2 \in Ranks :
         (Planned(r1) /\ Planned(r2)) =>
            planner[r1].node_assignments = planner[r2].node_assignments

\* C11's case: three jobs of sizes 2, 1, 2 over two nodes: jobs 3 and 1 go
\* to nodes 0 and 1, and job 2 to node 0, the first of two equally loaded
C11_Witness ==
    /\ world_size = 2
    /\ \A r \in Ranks : Planned(r)
    /\ file_size = <<2, 1, 2>>
    /\ node_shard = [r \in Ranks |-> IF r = 0 THEN <<3, 2>> ELSE <<1>>]

\* the summed size of the jobs in s
CostOf(s) == SumOver(Range(s), file_size)

LargestJob == MaxOf({0} \cup {file_size[j] : j \in Range(catalog)})

\* the heaviest shard among those the ranks computed
MaxShardCost == MaxOf({CostOf(node_shard[r]) : r \in Ranks})

\* C12: once every rank has planned, the cost of the heaviest shard is at
\* most total / W + the largest job's cost (written without division).
\* total / W is a lower bound of the heaviest shard of every assignment, the
\* optimal one included, so the bound with the optimal cost follows.
C12_LoadBalanceBound ==
    AllPlanned =>
        world_size * MaxShardCost
            <= CostOf(catalog) + world_size * LargestJob

\* C12's case: three jobs of size 2 over two nodes: the heaviest shard (4)
\* is above the even share (3)
C12_Witness ==
    /\ AllPlanned
    /\ world_size = 2
    /\ file_size = <<2, 2, 2>>
    /\ MaxShardCost = 4

\* C13: once every rank has computed its size-balanced shard, every catalog
\* entry stands in exactly one rank's shard, also when a file became
\* unmeasurable between two ranks' measurements.
C13_BalancedPartition ==
    AllPlanned => \A j \in Range(catalog) : Cardinality(PlacesOf(j)) = 1

(***************************************************************************)
(* Claims about the start of main (StartSpec).                             *)
(***************************************************************************)
ValidConfig == world_size > 0 /\ rank \in 0..(world_size - 1)

\* a step of get_tasks: it returns a list of tasks or it raises
GetTasksStep ==
    \/ \E dyn \in BOOLEAN, lim \in 0..MaxLimit : StartResume(dyn, lim)
    \/ \E dyn \in BOOLEAN, lim \in 0..MaxLimit : StartNoResume(dyn, lim)
    \/ GetTasksRaises

\* a run of main in any mode, up to the launch of its units
RunStep == GetTasksStep \/ \E dyn \in BOOLEAN : StartRetry(dyn)

\* C14: with WORLD_SIZE <= 0 or RANK outside 0..WORLD_SIZE-1, get_tasks ends
\* with an error: it hands no task to the units, launches none and leaves
\* the progress files as they were.
C14_ConfigError ==
    [][(~ValidConfig /\ GetTasksStep) =>
          /\ raised' # raised
          /\ UNCHANGED <<fileVars, runVars, unitVars>>]_vars

\* C17: no run of main ends with the decoding error of a progress file.
C17_MalformedNeverAborts == "JSONDecodeError" \notin raised

\* C20: without the catalog file, a run of main in any mode ends with an
\* error, launches no unit and leaves the progress files as they were.
C20_AbortsWithoutCatalog ==
    [][(~cache_exists /\ RunStep) =>
          /\ raised' # raised
          /\ UNCHANGED <<fileVars, runVars, unitVars>>]_vars

(***************************************************************************)
(* Claims about save_progress (SaveSpec) and about the catalog load of     *)
(* batch_controller.py (ScanSpec).                                         *)
(***************************************************************************)
\* C16: when the process was killed inside save_progress, a reload finds
\* every completed job of the prior save, and for every job the prior save
\* recorded as failed a count no lower, or the job completed.
C16_CrashKeepsPriorSave ==
    saving.pc = "crashed" =>
        /\ prior.completed \subseteq LoadedCompleted
        /\ \A j \in Jobs :
              \/ LoadedFailed[j] >= prior.failed[j]
              \/ j \in LoadedCompleted

\* C18: a call of get_tasks that finds no cache file or an empty one scans
\* the directories and leaves what it found in the cache file; a call that
\* finds a cache file with lines returns these lines in file order, without
\* a scan and without touching the file.
C18_ScanWhenMissingOrEmpty ==
    [][loads' = loads + 1 =>
          IF ~cache_file.exists \/ cache_file.lines = << >>
          THEN /\ scans' = scans + 1
               /\ cache_file'.exists
               /\ cache_file'.lines = relative_paths'
          ELSE /\ scans' = scans
               /\ cache_file' = cache_file
               /\ relative_paths' =
                     [i \in DOMAIN cache_file.lines |->
                         strip(cache_file.lines[i])]]_vars

FilesOfTree == {p \in RelPaths : tree[p] = "file"}

PathLess(p, q) == NameLess(p[1], q[1]) \/ (p[1] = q[1] /\ NameLess(p[2], q[2]))

\* C19: once a scan has happened, it happened once and wrote the cache file
\* once; what it found is the files of the tree in ascending path order,
\* whatever the enumeration order was; and every call of get_tasks since,
\* the scanning one and the later ones, returned exactly that sequence.
C19_ReproducibleOrder ==
    scans > 0 =>
        /\ scans = 1
        /\ cache_writes = 1
        /\ Len(cold_paths) = Cardinality(FilesOfTree)
        /\ Range(cold_paths) = FilesOfTree
        /\ \A i, k \in DOMAIN cold_paths :
              i < k => PathLess(cold_paths[i], cold_paths[k])
        /\ relative_paths = cold_paths

(***************************************************************************)
(* Claims about the run machine (Spec) and the resume filter               *)
(* (ClassifySpec).                                                         *)
(***************************************************************************)
\* what a resume run started now would hand to its units (no limit)
ResumeWouldRun ==
    Range(ResumeFilter(Shard, 1, AutoCompleted, LoadedFailed, << >>).pending)

\* C2: in every reachable persisted state no job is listed in the completed
\* file and has an entry in the failed file at the same time.
C2_CompletedFailedDisjoint ==
    \A j \in Jobs : ~(j \in cfile /\ ffile[j] > 0)

\* C3: outside a no-resume run, the worker is never running for a job whose
\* recorded consecutive failures had reached MAX_RETRIES when the run
\* started; a resume run hands out only jobs below the ceiling.
C3_RetryCeiling ==
    /\ \A u \in Units :
         (upc[u] = "run" /\ kind # "noresume") => startF[ujob[u]] < MAX_RETRIES
    /\ kind = "resume" => \A j \in Range(tasks) : startF[j] < MAX_RETRIES

\* C4: at the end of an uninterrupted fixed_pool run, every job whose worker
\* exited 0 is in the completed file and every job whose worker exited
\* non-zero has a retry count one higher than when the units started.
C4_NoLostOutcome ==
    (pc = "done" /\ ~dynamic /\ ~interrupted) =>
        /\ exit0 \subseteq cfile
        /\ \A j \in exitN : ffile[j] = startF[j] + 1

\* C5: a job is in the completed file only if its worker exited 0 in some
\* run or its output file exists (a worker that exits 0 has written it);
\* an uninterrupted dynamic_queue run ends with every job whose worker
\* exited non-zero recorded in failed, one count higher, and not in completed.
C5_CompletedIsProof ==
    ~interrupted =>
        /\ \A j \in cfile : j \in outExists
        /\ (pc = "done" /\ dynamic) =>
              \A j \in exitN : j \notin cfile /\ ffile[j] = startF[j] + 1

\* C6: an uninterrupted resume run (no limit) over a shard of which the
\* subset startC was completed before, with no failure recorded or
\* happening, invokes the worker for exactly shard minus startC, leaves
\* completed = shard, and a further resume run would process nothing.
C6_ResumeIdempotent ==
    (/\ pc = "done"
     /\ kind = "resume"
     /\ ~interrupted
     /\ limit = 0
     /\ startC \subseteq ShardSet
     /\ \A j \in Jobs : startF[j] = 0
     /\ exitN = {}) =>
        /\ invoked = ShardSet \ startC
        /\ cfile = ShardSet
        /\ ResumeWouldRun = {}

\* C7: after the interrupt no unit runs a job that had not started before
\* it, and every job in flight at the interrupt has reached its own exit
\* status when the run ends.
C7_InterruptDrains ==
    interrupted =>
        /\ \A u \in Units : upc[u] = "run" => ujob[u] \notin pendAtInt
        /\ pc = "done" => flightAtInt \subseteq (exit0 \cup exitN)

\* C8: a run interrupted with jobs in flight and jobs pending ends with the
\* outcome of every in-flight job persisted (completed, or failed one count
\* higher), no pending job in completed, and every pending job selected by
\* a following resume run.
C8_ScenarioD ==
    (pc = "done" /\ interrupted /\ flightAtInt # {} /\ pendAtInt # {}) =>
        /\ \A j \in flightAtInt : j \in cfile \/ ffile[j] = startF[j] + 1
        /\ pendAtInt \cap cfile = {}
        /\ pendAtInt \subseteq ResumeWouldRun

\* C15: from one persisted state to the next, the retry count of a job
\* does not decrease unless the job is then in completed, the count had
\* reached MAX_RETRIES, or the step is the reset of a no-resume start.
C15_RetryCountMonotone ==
    [][(~ \E dyn \in BOOLEAN, lim \in 0..MaxLimit : StartNoResume(dyn, lim)) =>
          \A j \in Jobs :
             \/ ffile'[j] >= ffile[j]
             \/ j \in cfile'
             \/ ffile[j] >= MAX_RETRIES]_vars

\* the classification of the claim, from the persisted record c, f and the
\* existing outputs
Classify(j, c, f) ==
    IF j \in c THEN "SkipCompleted"
    ELSE IF j \in outExists THEN "SkipOutputExists"
    ELSE IF f[j] >= MAX_RETRIES THEN "SkipMaxRetriesExceeded"
    ELSE IF f[j] > 0 THEN "Retry"
    ELSE "Pending"

Kept(j) == Classify(j, LoadedCompleted, LoadedFailed) \in {"Retry", "Pending"}

KeptJobs == SelectSeq(Shard, Kept)

FirstOf(s, n) == IF n = 0 THEN s ELSE SubSeq(s, 1, Min(n, Len(s)))

OutputSkipped ==
    {j \in ShardSet :
        Classify(j, LoadedCompleted, LoadedFailed) = "SkipOutputExists"}

\* C9 as stated: the list a resume-mode start hands to the worker pool is
\* exactly the kept (Retry or Pending) jobs, in shard order, and every job
\* skipped for its existing output is recorded as completed.
C9_KeptExactly ==
    [][\A dyn \in BOOLEAN, lim \in 0..MaxLimit :
          StartResume(dyn, lim) =>
             /\ tasks' = KeptJobs
             /\ OutputSkipped \subseteq cfile']_vars

\* C9 amended: the list handed to the worker pool is the kept jobs in shard
\* order, cut to its first `limit` entries when a limit is given.
C9_KeptUpToLimit ==
    [][\A dyn \in BOOLEAN, lim \in 0..MaxLimit :
          StartResume(dyn, lim) =>
             /\ tasks' = FirstOf(KeptJobs, lim)
             /\ OutputSkipped \subseteq cfile']_vars

\* C9's case: a resume run that skipped job 1 at the ceiling and retries
\* job 2 as attempt 3
C9_Witness ==
    /\ kind = "resume"
    /\ nxt = 0
    /\ startF[1] = MAX_RETRIES
    /\ startF[2] = MAX_RETRIES - 1
    /\ tasks = <<2>>


(***************************************************************************)
(* Claims about the completion ledger (LedgerSpec).                        *)
(***************************************************************************)
\* the number of lines of the ledger
LedgerLines == SumOver(DOMAIN ledger, ledger)

\* every rank is between flushes and has flushed its whole completion set
AllFlushed ==
    \A r \in LedgerRanks :
        /\ flusher[r].pc = "idle"
        /\ flusher[r].completed \subseteq flusher[r].flushed

\* C21: once every rank has flushed, the set of the job ids on the ledger
\* is the union of the ranks' completion sets, under every interleaving of
\* the ranks' reads and appends; and a flush of a rank that has already
\* flushed its whole completion set appends no line.
C21_LedgerConvergence ==
    /\ [](AllFlushed =>
            LedgerSet = UNION {flusher[r].completed : r \in LedgerRanks})
    /\ [][\A r \in LedgerRanks :
            (/\ flusher[r].pc = "read"
             /\ flusher'[r].pc = "idle"
             /\ flusher[r].completed \subseteq flusher[r].flushed)
                => ledger' = ledger]_vars

\* C21's case: both ranks completed job 1 and read the ledger before either
\* appended, so its line stands twice; rank 0 also completed job 2; all is
\* flushed
C21_Witness ==
    /\ AllFlushed
    /\ flusher[0].completed = {1, 2}
    /\ flusher[1].completed = {1}
    /\ LedgerLines = 3


(***************************************************************************)
(* Claims about processes of several ranks (CrossSpec).                    *)
(***************************************************************************)
\* the jobs a record lists as completed
CompletedIn(f) == IF f.exists /\ f.cvalid THEN f.completed ELSE {}

\* the jobs recorded as completed by any rank: in the files of the current
\* rank or in those another rank's process left
RecordedCompleted ==
    LoadedCompleted
        \cup UNION {CompletedIn(rank_files[r]) : r \in DOMAIN rank_files \ {rank}}

\* C22: a job recorded as completed by any rank or earlier run is skipped
\* when a fresh resume-mode process classifies its shard: it is not among
\* the tasks handed to the units, whatever the rank of the process.
C22_ScenarioC ==
    [][(pc = "idle" /\ kind' = "resume")
          => Range(tasks') \cap RecordedCompleted = {}]_vars


(***************************************************************************)
(* Claims about one dynamic run (DynSpec).                                 *)
(***************************************************************************)
\* every worker thread has left its loop
ExecutorsStopped == \A u \in Units : upc[u] = "exit"

\* C23: in a dynamic run no job is handed to run_blender_remesh twice, only
\* jobs of the queue are, at most one thread holds a given job at a time,
\* and once every worker thread has stopped every job of the queue has been
\* run exactly once to its end, interrupted or not.
C23_QueueExactlyOnce ==
    (pc \in {"dyn", "join", "done"}) =>
        /\ \A j \in Jobs : runs[j] <= 1
        /\ \A j \in Jobs : runs[j] = 1 => j \in Range(tasks)
        /\ \A u, v \in Units :
              (u # v /\ ujob[u] # 0) => ujob[u] # ujob[v]
        /\ ExecutorsStopped =>
              \A j \in Range(tasks) :
                  runs[j] = 1 /\ j \in exit0 \cup exitN

\* C23's case: a queue of two jobs emptied by the threads, one job having
\* succeeded and one failed, and every thread stopped
C23_Witness ==
    /\ pc = "done"
    /\ Len(tasks) = 2
    /\ ExecutorsStopped
    /\ exit0 # {}
    /\ exitN # {}
    /\ ~interrupted


(***************************************************************************)
(* Claims about the modes of main (StartSpec, FreshSpec).                  *)
(***************************************************************************)
\* the jobs recorded as failed whose retry count is below the ceiling
Retriable == {j \in Jobs : LoadedFailed[j] > 0 /\ LoadedFailed[j] < MAX_RETRIES}

\* C24: the tasks that --retry-failed hands to the units are exactly the
\* jobs recorded in `failed` with a retry count below MAX_RETRIES; a job
\* whose count has reached MAX_RETRIES is not among them.
C24_RetryBelowCeiling ==
    [][(pc = "idle" /\ kind' = "retry") => Range(tasks') = Retriable]_vars


(***************************************************************************)
(* Claims about repeated resume runs (SettleSpec).                         *)
(***************************************************************************)
\* the resume filter of the next invocation would not hand job j to a unit
NonPending(j) ==
    \/ j \in LoadedCompleted
    \/ j \in outExists
    \/ LoadedFailed[j] >= MAX_RETRIES

\* job j was not handed to a unit by this invocation because it was
\* completed or had failed MAX_RETRIES times
SettledAtStart(j) == j \in startC \/ startF[j] >= MAX_RETRIES

\* C25: under repeated resume runs every job of the shard becomes and
\* remains non-pending. The part checked here is `remains`: a job of the
\* shard that was non-pending when a resume run began is non-pending when
\* that run has run to its end without interruption.
C25_SettledRemains ==
    (pc = "done" /\ kind = "resume" /\ ~interrupted) =>
        \A j \in ShardSet : SettledAtStart(j) => NonPending(j)


(***************************************************************************)
(* Claims about the fresh start (FreshSpec).                               *)
(***************************************************************************)
\* C26: a run started without resume hands the rank's entire shard to the
\* units, cut only by --max, whatever the progress files and the outputs
\* were, and when the units are launched the progress files hold an empty
\* completed list and an empty failed map and no worker has been started.
C26_FreshStart ==
    [][(pc = "idle" /\ kind' = "noresume") =>
          /\ tasks' = ApplyLimit(Shard, limit')
          /\ (limit' = 0 => tasks' = Shard)
          /\ fexists' /\ cvalid' /\ fvalid'
          /\ cfile' = {}
          /\ ffile' = NoFailed
          /\ invoked' = {}
          /\ \A u \in Units : upc'[u] = "idle"]_vars

\* C26 witness: a fresh start without --max whose whole shard already had
\* its outputs, launched with empty progress files
C26_Witness ==
    /\ kind = "noresume"
    /\ limit = 0
    /\ Len(tasks) = 2
    /\ tasks = Shard
    /\ ShardSet \subseteq outExists
    /\ cfile = {}
    /\ ffile = NoFailed
    /\ invoked = {}


(***************************************************************************)
(* Claims about run_blender_remesh (SettleSpec).                           *)
(***************************************************************************)
\* C28: when a unit's worker exits 0, the record the unit saves is the
\* record it loaded with the job added to completed and without a failure
\* count for the job; when the worker exits non-zero, it is the loaded
\* record with the job's count 1 if it had none and one more otherwise;
\* the entries of all other jobs are the loaded ones.
C28_OutcomeRecorded ==
    [][\A u \in Units :
          (upc[u] = "run" /\ upc'[u] # "run") =>
              LET j == ujob[u]
              IN  /\ (exit0' # exit0) =>
                        /\ cfile' = uc[u] \cup {j}
                        /\ ffile'[j] = 0
                        /\ \A k \in Jobs \ {j} : ffile'[k] = uf[u][k]
                  /\ (exitN' # exitN) =>
                        /\ cfile' = uc[u]
                        /\ ffile'[j] = IF uf[u][j] = 0 THEN 1
                                       ELSE uf[u][j] + 1
                        /\ \A k \in Jobs \ {j} : ffile'[k] = uf[u][k]]_vars

\* C28 witness: in one run, a job that had failed once has failed again and
\* holds the count 2, and a job that had failed before has succeeded and is
\* completed without a failure count
C28_Witness ==
    \E j, k \in Jobs :
        /\ j \in exitN /\ startF[j] = 1 /\ ffile[j] = 2
        /\ k \in exit0 /\ startF[k] >= 1 /\ ffile[k] = 0 /\ k \in cfile


(***************************************************************************)
(* Claims about the end of a dynamic run (DynSpec).                        *)
(***************************************************************************)
\* C30: in a dynamic run that is not interrupted, the wait loop ends, and
\* the end-of-run write is made, only when every queued job has finished
\* executing: no thread holds a job it has dequeued and not yet finished.
C30_WriteAfterAllFinished ==
    [][(pc = "dyn" /\ pc' = "join" /\ ~interrupted') =>
          /\ \A j \in Range(tasks) : j \in exit0 \cup exitN
          /\ \A u \in Units : upc[u] \in {"idle", "exit"}]_vars


\* C29: process_tasks_dynamic terminates when every worker invocation
\* returns: a dynamic run that has been launched reaches its end, with the
\* queue empty, every thread stopped and the wait loop left.
C29_DynTerminates ==
    (pc = "dyn") ~>
        (pc = "done" /\ nxt = Len(tasks) /\ \A u \in Units : upc[u] = "exit")

\* C29 witness: a dynamic run of two jobs has ended without interruption,
\* no job active and no thread left
C29_Witness ==
    /\ pc = "done"
    /\ dynamic
    /\ ~interrupted
    /\ Len(tasks) = 2
    /\ nxt = 2
    /\ active = 0
    /\ dcompleted = Range(tasks)
    /\ \A u \in Units : upc[u] = "exit"


(***************************************************************************)
(* Claims about sampled size estimation (SampleSpec). Sizes are kept       *)
(* multiplied by the number of sampled jobs, so a job costed at the mean   *)
(* of the sampled sizes holds their sum.                                   *)
(***************************************************************************)
\* C27: when the catalog is longer than sample_size, the measured jobs are
\* those at the indices 0, k, 2k, ... with k = len // sample_size, at most
\* sample_size of them; a measured job is costed at its measured size and
\* every other job at the mean of the measured sizes.
C27_SampledEstimate ==
    \A r \in DOMAIN planner :
        (planner[r].pc = "sized" /\ sample_size < Len(catalog)) =>
            LET n == Len(catalog)
                k == n \div sample_size
                S == CacheEntries(planner[r].size_cache)
                count == Min(sample_size, ((n - 1) \div k) + 1)
                total == SumIn(S, file_size, 1, n)
                sized == planner[r].sized_paths
            IN  /\ S = {catalog[(m * k) + 1] : m \in 0..(count - 1)}
                /\ Cardinality(S) <= sample_size
                /\ Len(sized) = n
                /\ \A i \in 1..n :
                      /\ sized[i][2] = catalog[i]
                      /\ sized[i][1] =
                            IF catalog[i] \in S
                            THEN Cardinality(S) * file_size[catalog[i]]
                            ELSE total

\* C27 witness: a catalog of 2 * sample_size + 1 paths has been sized with
\* sample_size measured jobs; the last path, at a multiple of k, is beyond
\* the sample and holds the non-zero sum of the measured sizes
C27_Witness ==
    /\ Len(catalog) = (2 * sample_size) + 1
    /\ planner[0].pc = "sized"
    /\ Cardinality(CacheEntries(planner[0].size_cache)) = sample_size
    /\ planner[0].size_cache[Len(catalog)] = Absent
    /\ planner[0].sized_paths[Len(catalog)][1] > 0
    /\ file_size[Len(catalog)] = 0


(***************************************************************************)
(* Claims about what a run leaves in the completed file (Spec).            *)
(***************************************************************************)
\* C31: outside no-resume mode, every job that was in the rank's completed
\* file when the run started is in the rank's completed file when the run
\* has ended, in fixed-pool, dynamic and retry-failed runs.
C31_CompletionKept ==
    (pc = "done" /\ kind \in {"resume", "retry"}) =>
        startP \subseteq LoadedCompleted


(***************************************************************************)
(* Claims about the sampling depth of the command line (DepthSpec).        *)
(***************************************************************************)
\* C32: the depth s given with --sample-sizes decides how many jobs are
\* measured: every job of the catalog when s = 0, exactly s jobs when
\* 0 < s < catalog length. The measured jobs are the entries of the size
\* cache, which starts empty.
C32_DepthDecides ==
    \A r \in DOMAIN planner :
        planner[r].pc = "sized" =>
            LET s == planner[r].sample_sizes
                n == Len(catalog)
                m == Cardinality(CacheEntries(planner[r].size_cache))
            IN  /\ (s = 0) => (m = n)
                /\ (s > 0 /\ s < n) => (m = s)


\* C33: in every reachable state every entry of the rank's completed file
\* is a job of the rank's shard, also after the completed jobs were
\* auto-detected from the existing output files on a first resume run.
C33_CompletedWithinShard == LoadedCompleted \subseteq ShardSet


(***************************************************************************)
(* Claims about the files of the other ranks (RanksSpec).                  *)
(***************************************************************************)
\* C34: no step of a run of rank r, in any mode, and no start of a process
\* changes the completed and failed files of a rank other than the one that
\* is running.
C34_OnlyOwnFiles ==
    [][\A q \in 0..(MaxWorld - 1) :
          (q # rank) => (ProgressFilesOf(q)' = ProgressFilesOf(q))]_vars

\* C34 witness: a run of rank 1 has ended and has written its own files,
\* while the files rank 0 left hold another record
C34_Witness ==
    /\ rank = 1
    /\ pc = "done"
    /\ fexists
    /\ cfile # {}
    /\ rank_files[0].exists
    /\ rank_files[0].completed # {}
    /\ rank_files[0].completed # cfile
    /\ exit0 # {}

=============================================================================
